---- MODULE Spec2Model ----
(***************************************************************************)
(* Model of the three maintenance scripts of izerwaren-marine-shop:        *)
(*   fix_localhost_references.py  (SpecFix, SpecFixFile)                   *)
(*   fix_static_assets_deploy.py  (SpecDeploy)                             *)
(*   migrate_config_batch.py      (SpecMigrate)                            *)
(*                                                                         *)
(* File contents are sequences of text chunks.  Every chunk is a literal   *)
(* piece of text that the scripts' patterns treat as a unit, written as    *)
(* the text itself; a content is the concatenation of its chunks.  The     *)
(* chunk alphabets are chosen so that a pattern literal can only occur     *)
(* aligned with chunk boundaries, which makes matching on chunks the same  *)
(* as matching on characters.                                              *)
(***************************************************************************)
EXTENDS Integers, Sequences, FiniteSets, TLC

VARIABLES
    \* ---- fix_localhost_references.py
    fs,             \* path -> content: the files under frontend_src
    fs0,            \* fs when main (or the first fix_file call) started
    fixes_applied,  \* the list main hands to fix_file
    stage,          \* position of main: "ts", "tsx", "done"; "call" in SpecFixFile
    todo,           \* paths the current rglob has not yielded yet
    rets,           \* path -> what fix_file returned on it ("True", "False"), "none"
                    \* before the call
    wrote,          \* paths opened for writing, in order
    ncalls,         \* number of fix_file calls made
    \* ---- fix_static_assets_deploy.py
    pc,             \* position of main: "build", "push", "deploy", "sleep", "get",
                    \* "exit" (main returned), "done" (sys.exit ran); "off" elsewhere
    issued,         \* the external calls made so far, in order
    rcs,            \* command -> its exit code, for the commands that have run
    stdout,         \* standard output of the deploy command, as chunks
    service_url,    \* the URL main tests; <<>> while it is None
    usedDefault,    \* whether main took the "using default" branch
    slept,          \* seconds slept before the test
    target,         \* the URL handed to requests.get; <<>> before the call
    http,           \* "none", "raised" or the status code of the response, as text
    retval,         \* what main returned ("True", "False"), "none" before
    exitStatus,     \* the status handed to sys.exit, as text, "none" before
    \* ---- migrate_config_batch.py
    present,        \* the listed paths for which os.path.exists holds
    mfs,            \* listed path -> content (<<>> for a path that does not exist)
    mfs0,           \* mfs before the first run of main
    mfsRun,         \* mfs when the current run of main started
    mpc,            \* position of main: "frontend", "component", "api", "done"
    mrun,           \* number of the current run of main
    mlog            \* the writes so far: path and the content that had been read

fixVars == <<fs, fs0, fixes_applied, stage, todo, rets, wrote, ncalls>>

deployVars == <<pc, issued, rcs, stdout, service_url, usedDefault, slept, target,
                http, retval, exitStatus>>

migrateVars == <<present, mfs, mfs0, mfsRun, mpc, mrun, mlog>>

vars == <<fixVars, deployVars, migrateVars>>

----------------------------------------------------------------------------
(* Generic helpers on sequences of chunks *)

Range(s) == {s[i] : i \in 1..Len(s)}

Drop(s, n) == SubSeq(s, n + 1, Len(s))

NoDup(s) == \A i, j \in 1..Len(s) : s[i] = s[j] => i = j

\* all sequences over alphabet A of length at most n
SeqsUpTo(A, n) == UNION {[1..k -> A] : k \in 0..n}

----------------------------------------------------------------------------
(* fix_localhost_references.py : chunks *)

SQ == "'"
DQ == "\""
\* the backtick character (the lexer does not take it inside a string)
BT == "<backtick>"
URL == "http://localhost:3001"
HEALTH == "/health"
FETCH == "fetch("
RP == ")"
SEMI == ";"
PRE == "const API_BASE_URL = process.env.NEXT_PUBLIC_API_URL || "
API == "/api"

\* the character class of the three patterns: single or double quote
Quotes == {SQ, DQ}

\* chunks a file content is drawn from
FixAlphabet == {PRE, FETCH, SQ, DQ, BT, URL, HEALTH, RP, SEMI}

\* longest content enumerated in SpecFixFile
MaxLen == 6

\* number of fix_file calls on the same file in SpecFixFile
MaxCalls == 2

\* values of the variables of fix_localhost_references.py while another script runs
IdleFix ==
    /\ fs = <<>> /\ fs0 = <<>> /\ fixes_applied = <<>> /\ stage = "off"
    /\ todo = {} /\ rets = <<>> /\ wrote = <<>> /\ ncalls = 0

\* values of the variables of migrate_config_batch.py while another script runs
IdleMigrate ==
    /\ present = {} /\ mfs = <<>> /\ mfs0 = <<>> /\ mfsRun = <<>>
    /\ mpc = "off" /\ mrun = 0 /\ mlog = <<>>

\* values of the variables of fix_static_assets_deploy.py while another script runs
IdleDeploy ==
    /\ pc = "off" /\ issued = <<>> /\ rcs = <<>> /\ stdout = <<>>
    /\ service_url = <<>> /\ usedDefault = FALSE /\ slept = 0 /\ target = <<>>
    /\ http = "none" /\ retval = "none" /\ exitStatus = "none"

\* re.sub of a pattern that is a fixed sequence of chunks, quotes being either
\* quote character: pat gives for each position the set of chunks allowed there
MatchesAt(s, pat) ==
    /\ Len(s) >= Len(pat)
    /\ \A i \in 1..Len(pat) : s[i] \in pat[i]

RECURSIVE SubFixed(_, _, _)
SubFixed(s, pat, repl) ==
    IF s = <<>> THEN <<>>
    ELSE IF MatchesAt(s, pat) THEN repl \o SubFixed(Drop(s, Len(pat)), pat, repl)
    ELSE <<Head(s)>> \o SubFixed(Tail(s), pat, repl)

pattern1 == <<{PRE}, Quotes, {URL}, Quotes, {SEMI}>>
replacement1 == <<PRE, SQ, API, SQ, SEMI>>

pattern2 == <<{FETCH}, Quotes, {URL}, {HEALTH}, Quotes, {RP}>>
replacement2 == <<FETCH, SQ, API, HEALTH, SQ, RP>>

\* pattern3 = quote, http://localhost:3001, (non-quotes)*, quote: the group is greedy, so it
\* runs to the next quote character; there is no match when no quote follows.
RECURSIVE GroupLen(_)
GroupLen(s) ==
    IF s = <<>> \/ Head(s) \in Quotes THEN 0 ELSE 1 + GroupLen(Tail(s))

\* number of chunks pattern3 matches at the head of s, 0 when it does not match
Match3Len(s) ==
    IF Len(s) >= 3 /\ s[1] \in Quotes /\ s[2] = URL
    THEN LET g == GroupLen(Drop(s, 2))
         IN IF 2 + g < Len(s) THEN 3 + g ELSE 0
    ELSE 0

RECURSIVE Sub3(_)
Sub3(s) ==
    IF s = <<>> THEN <<>>
    ELSE LET n == Match3Len(s)
         IN IF n > 0
            THEN <<SQ, API>> \o SubSeq(s, 3, n - 1) \o <<SQ>> \o Sub3(Drop(s, n))
            ELSE <<Head(s)>> \o Sub3(Tail(s))

\* the three substitutions of fix_file, in order
Rewrite(content) ==
    Sub3(SubFixed(SubFixed(content, pattern1, replacement1), pattern2, replacement2))

\* "http://localhost:3001" in content
HasLocalhost(content) == URL \in Range(content)

----------------------------------------------------------------------------
(* fix_localhost_references.py : paths *)

\* frontend_src; every path rglob yields starts with it
frontend_src == "/Users/noelmcmichael/Workspace/izerwaren_revamp_2_0/apps/frontend/src/"

\* a path is the sequence of its name parts, the suffix last
TreePaths ==
    { <<frontend_src, "services/", "cart", ".ts">>,
      <<frontend_src, "services/", "shopify", ".ts">>,
      <<frontend_src, "app/", "page", ".tsx">>,
      <<frontend_src, "node_modules/", "pkg/", "index", ".ts">>,
      <<frontend_src, ".next/", "types/", "page", ".tsx">>,
      <<frontend_src, "lib/", "legacy", ".js">>,
      <<frontend_src, "app/", "page", ".next", ".ts">> }

\* the path of the single file of SpecFixFile
OnePath == <<frontend_src, "services/", "cart", ".ts">>

\* contents the files of SpecFix are drawn from
SampleContents ==
    { <<PRE, SQ, URL, SQ, SEMI>>,
      <<FETCH, DQ, URL, HEALTH, DQ, RP>>,
      <<BT, URL, HEALTH, BT>>,
      <<FETCH, SQ, API, HEALTH, SQ, RP>> }

\* frontend_src.rglob("*.ts"), frontend_src.rglob("*.tsx")
Rglob(suffix) == {p \in DOMAIN fs : p[Len(p)] = suffix}

\* the path filter with its second test dropped
Excluded_OnlyNodeModules(p) == "node_modules/" \in Range(p)

\* "node_modules" in str(file_path) or ".next" in str(file_path)
Excluded(p) ==
    \/ "node_modules/" \in Range(p)
    \/ ".next/" \in Range(p) \/ ".next" \in Range(p)

----------------------------------------------------------------------------
(* fix_localhost_references.py : fix_file and main *)

\* fix_file without its test content != original_content: it always writes
FixFile_AlwaysWrites(p) ==
    /\ ncalls' = ncalls + 1
    /\ fs' = [fs EXCEPT ![p] = Rewrite(fs[p])]
    /\ wrote' = Append(wrote, p)
    /\ fixes_applied' = Append(fixes_applied, p)
    /\ rets' = [rets EXCEPT ![p] = "True"]

\* fix_file(file_path, fixes_applied)
FixFile(p) ==
    LET original_content == fs[p]
        content == Rewrite(original_content)
    IN /\ ncalls' = ncalls + 1
       /\ IF content # original_content
          THEN /\ fs' = [fs EXCEPT ![p] = content]
               /\ wrote' = Append(wrote, p)
               /\ fixes_applied' = Append(fixes_applied, p)
               /\ rets' = [rets EXCEPT ![p] = "True"]
          ELSE /\ rets' = [rets EXCEPT ![p] = "False"]
               /\ UNCHANGED <<fs, wrote, fixes_applied>>

\* state at the first rglob loop of main, for the tree t
MainStart(t) ==
    /\ fs = t
    /\ fs0 = t
    /\ fixes_applied = <<>>
    /\ stage = "ts"
    /\ todo = {p \in DOMAIN t : p[Len(p)] = ".ts"}
    /\ rets = [p \in DOMAIN t |-> "none"]
    /\ wrote = <<>>
    /\ ncalls = 0
    /\ IdleDeploy
    /\ IdleMigrate

InitFix == \E t \in [TreePaths -> SampleContents] : MainStart(t)

\* one iteration of either loop whose path passes the filter: fix_file is called
Visit(p) ==
    /\ stage \in {"ts", "tsx"}
    /\ p \in todo
    /\ ~Excluded(p)
    /\ todo' = todo \ {p}
    /\ FixFile(p)
    /\ UNCHANGED <<fs0, stage, deployVars, migrateVars>>

\* one iteration of either loop that takes the continue
Skip(p) ==
    /\ stage \in {"ts", "tsx"}
    /\ p \in todo
    /\ Excluded(p)
    /\ todo' = todo \ {p}
    /\ UNCHANGED <<fs, fs0, fixes_applied, stage, rets, wrote, ncalls, deployVars, migrateVars>>

\* the first loop is exhausted: the second rglob starts
EndTs ==
    /\ stage = "ts"
    /\ todo = {}
    /\ stage' = "tsx"
    /\ todo' = Rglob(".tsx")
    /\ UNCHANGED <<fs, fs0, fixes_applied, rets, wrote, ncalls, deployVars, migrateVars>>

\* the second loop is exhausted: main prints its summary and returns
EndTsx ==
    /\ stage = "tsx"
    /\ todo = {}
    /\ stage' = "done"
    /\ UNCHANGED <<fs, fs0, fixes_applied, todo, rets, wrote, ncalls, deployVars, migrateVars>>

NextFix ==
    \/ \E p \in todo : Visit(p)
    \/ \E p \in todo : Skip(p)
    \/ EndTs
    \/ EndTsx

SpecFix == InitFix /\ [][NextFix]_vars

\* fix_file on its own: one file of any content up to MaxLen chunks, and up to
\* MaxCalls calls of fix_file on it
InitFixFile ==
    \E c \in SeqsUpTo(FixAlphabet, MaxLen) :
        /\ fs = (OnePath :> c)
        /\ fs0 = fs
        /\ fixes_applied = <<>>
        /\ stage = "call"
        /\ todo = {}
        /\ rets = (OnePath :> "none")
        /\ wrote = <<>>
        /\ ncalls = 0
        /\ IdleDeploy
        /\ IdleMigrate

CallFixFile ==
    /\ stage = "call"
    /\ ncalls < MaxCalls
    /\ FixFile(OnePath)
    /\ UNCHANGED <<fs0, stage, todo, deployVars, migrateVars>>

NextFixFile == CallFixFile

SpecFixFile == InitFixFile /\ [][NextFixFile]_vars

----------------------------------------------------------------------------
(* fix_static_assets_deploy.py : the deploy command's output and the URL *)

NL == "\n"
WS == " "
\* a chunk that holds both substrings the extraction looks for
SVCURL == "https://izerwaren-frontend-hotfix"
\* the rest of the host name of the default URL
HOSTTAIL == "-ek4ht2g44a-uc.a.run.app"
\* a chunk with 'https://' and without the service name
OTHERURL == "https://console.cloud.google.com/run"
\* a chunk with the service name and without 'https://'
SVCNAME == "Deploying izerwaren-frontend-hotfix"

OutAlphabet == {NL, WS, SVCURL, HOSTTAIL, OTHERURL, SVCNAME}

\* longest deploy output enumerated, in chunks
MaxOut == 5

\* "https://izerwaren-frontend-hotfix-ek4ht2g44a-uc.a.run.app"
DefaultUrl == <<SVCURL, HOSTTAIL>>

\* 'https://' in line and 'izerwaren-frontend-hotfix' in line
LineMatches(line) ==
    /\ \E i \in 1..Len(line) : line[i] \in {SVCURL, OTHERURL}
    /\ \E i \in 1..Len(line) : line[i] \in {SVCURL, SVCNAME}

\* text.split(sep): the pieces between the separators, at least one piece
RECURSIVE Split(_, _)
Split(text, sep) ==
    IF \A i \in 1..Len(text) : text[i] # sep THEN <<text>>
    ELSE LET k == CHOOSE i \in 1..Len(text) :
                      text[i] = sep /\ \A j \in 1..(i - 1) : text[j] # sep
         IN <<SubSeq(text, 1, k - 1)>> \o Split(Drop(text, k), sep)

\* line.strip()
RECURSIVE LStrip(_)
LStrip(line) ==
    IF line # <<>> /\ Head(line) = WS THEN LStrip(Tail(line)) ELSE line

RECURSIVE RStrip(_)
RStrip(line) ==
    IF line # <<>> /\ line[Len(line)] = WS
    THEN RStrip(SubSeq(line, 1, Len(line) - 1)) ELSE line

Strip(line) == RStrip(LStrip(line))

\* the loop without its break: the last matching line wins
RECURSIVE FirstUrl_NoBreak(_)
FirstUrl_NoBreak(lines) ==
    IF lines = <<>> THEN <<>>
    ELSE LET rest == FirstUrl_NoBreak(Tail(lines))
         IN IF rest # <<>> THEN rest
            ELSE IF LineMatches(Head(lines)) THEN Strip(Head(lines)) ELSE <<>>

\* the for loop over stdout.split('\n'): the first matching line, stripped, and
\* <<>> (None) when the loop ends without a break
RECURSIVE FirstUrl(_)
FirstUrl(lines) ==
    IF lines = <<>> THEN <<>>
    ELSE IF LineMatches(Head(lines)) THEN Strip(Head(lines))
    ELSE FirstUrl(Tail(lines))

ExtractUrl(out) == FirstUrl(Split(out, NL))

----------------------------------------------------------------------------
(* fix_static_assets_deploy.py : main *)

\* exit codes a command may return
ExitCodes == {0, 1}

\* status codes the service may answer with
StatusCodes == {"200", "404", "500"}

\* time.sleep(30)
WaitSeconds == 30

InitDeploy ==
    /\ pc = "build"
    /\ issued = <<>>
    /\ rcs = <<>>
    /\ stdout = <<>>
    /\ service_url = <<>>
    /\ usedDefault = FALSE
    /\ slept = 0
    /\ target = <<>>
    /\ http = "none"
    /\ retval = "none"
    /\ exitStatus = "none"
    /\ IdleFix
    /\ IdleMigrate

\* run_command whose result main does not test: the next step always follows
RunStep_IgnoresFailure(cmd, rc, next) ==
    /\ pc = cmd
    /\ issued' = Append(issued, cmd)
    /\ rcs' = (cmd :> rc) @@ rcs
    /\ pc' = next
    /\ retval' = retval

\* run_command(cmd): the command is issued and its exit code recorded; success
\* is returncode == 0.  On failure main returns False.
RunStep(cmd, rc, next) ==
    /\ pc = cmd
    /\ issued' = Append(issued, cmd)
    /\ rcs' = (cmd :> rc) @@ rcs
    /\ IF rc = 0
       THEN /\ pc' = next
            /\ retval' = retval
       ELSE /\ pc' = "exit"
            /\ retval' = "False"

\* Step 1: docker build
Build ==
    /\ pc = "build"
    /\ \E rc \in ExitCodes : RunStep("build", rc, "push")
    /\ UNCHANGED <<stdout, service_url, usedDefault, slept, target, http, exitStatus>>
    /\ UNCHANGED <<fixVars, migrateVars>>

\* Step 2: docker push
Push ==
    /\ pc = "push"
    /\ \E rc \in ExitCodes : RunStep("push", rc, "deploy")
    /\ UNCHANGED <<stdout, service_url, usedDefault, slept, target, http, exitStatus>>
    /\ UNCHANGED <<fixVars, migrateVars>>

\* Step 3: gcloud run deploy, then the extraction of the service URL
Deploy ==
    /\ pc = "deploy"
    /\ \E rc \in ExitCodes, out \in SeqsUpTo(OutAlphabet, MaxOut) :
          /\ RunStep("deploy", rc, "sleep")
          /\ stdout' = out
          /\ IF rc = 0
             THEN LET url == ExtractUrl(out)
                  IN IF url = <<>>
                     THEN /\ service_url' = DefaultUrl
                          /\ usedDefault' = TRUE
                     ELSE /\ service_url' = url
                          /\ usedDefault' = FALSE
             ELSE UNCHANGED <<service_url, usedDefault>>
    /\ UNCHANGED <<slept, target, http, exitStatus>>
    /\ UNCHANGED <<fixVars, migrateVars>>

\* Step 4, first half: the fixed wait
Sleep ==
    /\ pc = "sleep"
    /\ issued' = Append(issued, "sleep")
    /\ slept' = slept + WaitSeconds
    /\ pc' = "get"
    /\ UNCHANGED <<rcs, stdout, service_url, usedDefault, target, http, retval, exitStatus>>
    /\ UNCHANGED <<fixVars, migrateVars>>

\* the test with one retry when the answer is not 200
Get_RetriesOnce ==
    /\ pc = "get"
    /\ issued' = Append(issued, "get")
    /\ target' = service_url
    /\ \E r \in {"raised"} \cup StatusCodes :
          /\ http' = r
          /\ retval' = IF r = "raised" THEN "False" ELSE "True"
          /\ pc' = IF r # "200" /\ "get" \notin Range(issued) THEN "get" ELSE "exit"
    /\ UNCHANGED <<rcs, stdout, service_url, usedDefault, slept, exitStatus>>
    /\ UNCHANGED <<fixVars, migrateVars>>

\* Step 4, second half: requests.get in the try block; only the except branch
\* returns False, every response falls through to return True.  The tests on
\* the response body only choose what is printed and change no state.
Get ==
    /\ pc = "get"
    /\ issued' = Append(issued, "get")
    /\ target' = service_url
    /\ \E r \in {"raised"} \cup StatusCodes :
          /\ http' = r
          /\ retval' = IF r = "raised" THEN "False" ELSE "True"
    /\ pc' = "exit"
    /\ UNCHANGED <<rcs, stdout, service_url, usedDefault, slept, exitStatus>>
    /\ UNCHANGED <<fixVars, migrateVars>>

\* sys.exit(0 if success else 1)
Exit ==
    /\ pc = "exit"
    /\ exitStatus' = IF retval = "True" THEN "0" ELSE "1"
    /\ pc' = "done"
    /\ UNCHANGED <<issued, rcs, stdout, service_url, usedDefault, slept, target, http, retval>>
    /\ UNCHANGED <<fixVars, migrateVars>>

NextDeploy == Build \/ Push \/ Deploy \/ Sleep \/ Get \/ Exit

SpecDeploy == InitDeploy /\ [][NextDeploy]_vars

----------------------------------------------------------------------------
(* migrate_config_batch.py : chunks and file lists *)

ENV == "process.env.NEXT_PUBLIC_API_URL"
\* the same read followed by the or-operator that the patterns ask for
ENVOR == "process.env.NEXT_PUBLIC_API_URL || "
CONSTABU == "const API_BASE_URL = "
ABU == "API_BASE_URL"
IMPORTX == "import React"
IMPORTCONFIG == "import { config }"
FROM == " from "
LIBCONFIG == "@/lib/config"
CFG == "config.api.baseUrl"
CONSTCFG == "const config.api.baseUrl = "

DEVMODE == "process.env.NEXT_PUBLIC_DEV_MODE"
EQTRUE == " === 'true'"
PUBENV == "process.env.NEXT_PUBLIC_ENVIRONMENT"
FBPROJECT == "process.env.NEXT_PUBLIC_FIREBASE_PROJECT_ID"
FBKEY == "process.env.NEXT_PUBLIC_FIREBASE_API_KEY"
FBSENDER == "process.env.NEXT_PUBLIC_FIREBASE_MESSAGING_SENDER_ID"
FBAPP == "process.env.NEXT_PUBLIC_FIREBASE_APP_ID"
NODEENV == "process.env.NODE_ENV"
EQDEV == " === 'development'"

STORE == "process.env.NEXT_PUBLIC_SHOPIFY_STORE_DOMAIN"
TOKEN == "process.env.NEXT_PUBLIC_SHOPIFY_STOREFRONT_ACCESS_TOKEN"
SHOPOTHER == "process.env.NEXT_PUBLIC_SHOPIFY_API_VERSION"

frontend_files ==
    << "apps/frontend/src/services/resilient-products.ts",
       "apps/frontend/src/services/cart.ts",
       "apps/frontend/src/services/shopify.ts",
       "apps/frontend/src/app/categories/page.tsx",
       "apps/frontend/src/app/search/page.tsx",
       "apps/frontend/src/app/catalog/components/FilterSidebar.tsx",
       "apps/frontend/src/components/shared/CategoryDropdown.tsx",
       "apps/frontend/src/components/shared/CategoryCards.tsx",
       "apps/frontend/src/components/catalog/CategoryFilter.tsx",
       "apps/frontend/src/components/products/VariantSelector.tsx",
       "apps/frontend/src/components/b2b/cart/ProductSearchModal.tsx" >>

component_files ==
    << "apps/frontend/src/components/admin/AuthProvider.tsx",
       "apps/frontend/src/components/admin/ProtectedRoute.tsx",
       "apps/frontend/src/components/shared/ShopifyImage.tsx",
       "apps/frontend/src/components/product/EnhancedProductCard.tsx" >>

api_files ==
    << "apps/frontend/src/app/api/products/route.ts",
       "apps/frontend/src/app/api/products/route-simple.ts",
       "apps/frontend/src/app/api/debug/shopify/route.ts" >>

ListedPaths == Range(frontend_files) \cup Range(component_files) \cup Range(api_files)

\* chunks the content of a file of each list is drawn from
FrontendAlphabet ==
    {ENV, ENVOR, CONSTABU, ABU, SQ, DQ, SEMI, NL, WS, IMPORTX, IMPORTCONFIG}

ComponentAlphabet ==
    {DEVMODE, EQTRUE, PUBENV, FBPROJECT, FBKEY, FBSENDER, FBAPP, NODEENV, EQDEV,
     NL, IMPORTX, IMPORTCONFIG}

ApiAlphabet == {STORE, TOKEN, SHOPOTHER, NODEENV, NL, IMPORTX, IMPORTCONFIG}

AlphabetOf(path) ==
    IF path \in Range(frontend_files) THEN FrontendAlphabet
    ELSE IF path \in Range(component_files) THEN ComponentAlphabet
    ELSE ApiAlphabet

\* longest content enumerated in SpecMigrate
MaxLenMig == 4

\* runs of main in a row
MaxRuns == 2

----------------------------------------------------------------------------
(* migrate_config_batch.py : the text operations *)

\* "import { config }" in content
HasConfigImport(content) == IMPORTCONFIG \in Range(content)

\* "process.env.NEXT_PUBLIC_API_URL" in content
HasApiUrlEnv(content) == \E i \in 1..Len(content) : content[i] \in {ENV, ENVOR}

\* "process.env." in content
HasProcessEnv(content) ==
    \E i \in 1..Len(content) :
        content[i] \in {ENV, ENVOR, DEVMODE, PUBENV, FBPROJECT, FBKEY, FBSENDER,
                        FBAPP, NODEENV, STORE, TOKEN, SHOPOTHER}

\* "process.env.NEXT_PUBLIC_SHOPIFY" in content
HasShopifyEnv(content) ==
    \E i \in 1..Len(content) : content[i] \in {STORE, TOKEN, SHOPOTHER}

\* line.strip().startswith('import ')
IsImportLine(line) ==
    LET t == Strip(line) IN t # <<>> /\ Head(t) \in {IMPORTX, IMPORTCONFIG}

\* '\n'.join(lines)
RECURSIVE Join(_)
Join(lines) ==
    IF Len(lines) = 0 THEN <<>>
    ELSE IF Len(lines) = 1 THEN lines[1]
    ELSE lines[1] \o <<NL>> \o Join(Tail(lines))

\* the inserted line: import { config } from '@/lib/config';
ImportLine == <<IMPORTCONFIG, FROM, SQ, LIBCONFIG, SQ, SEMI>>

\* split, the loop that finds the place after the last import line, insert, join
InsertImport(content) ==
    LET lines == Split(content, NL)
        imports == {i \in 1..Len(lines) : IsImportLine(lines[i])}
        import_insert_index ==
            IF imports = {} THEN 0
            ELSE CHOOSE i \in imports : \A j \in imports : j <= i
    IN Join(SubSeq(lines, 1, import_insert_index) \o <<ImportLine>>
            \o SubSeq(lines, import_insert_index + 1, Len(lines)))

\* chunks matched at the head of s by the tail both URL patterns share: a quote,
\* non-quotes, a quote; 0 when there is no match
QuotedLen(s) ==
    IF s # <<>> /\ Head(s) \in Quotes
    THEN LET g == GroupLen(Tail(s))
         IN IF 1 + g < Len(s) THEN 2 + g ELSE 0
    ELSE 0

\* re.sub of: const API_BASE_URL = process.env.NEXT_PUBLIC_API_URL || 'x';?  by ''
RECURSIVE SubConstDecl(_)
SubConstDecl(s) ==
    IF s = <<>> THEN <<>>
    ELSE IF Len(s) >= 2 /\ s[1] = CONSTABU /\ s[2] = ENVOR /\ QuotedLen(Drop(s, 2)) > 0
    THEN LET n == 2 + QuotedLen(Drop(s, 2))
             m == IF n < Len(s) /\ s[n + 1] = SEMI THEN n + 1 ELSE n
         IN SubConstDecl(Drop(s, m))
    ELSE <<Head(s)>> \o SubConstDecl(Tail(s))

\* re.sub of: process.env.NEXT_PUBLIC_API_URL || 'x'  by config.api.baseUrl
RECURSIVE SubEnvOr(_)
SubEnvOr(s) ==
    IF s = <<>> THEN <<>>
    ELSE IF s[1] = ENVOR /\ QuotedLen(Tail(s)) > 0
    THEN <<CFG>> \o SubEnvOr(Drop(s, 1 + QuotedLen(Tail(s))))
    ELSE <<Head(s)>> \o SubEnvOr(Tail(s))

\* re.sub of API_BASE_URL by config.api.baseUrl, and str.replace: every chunk c
\* becomes map[c] when the map has it
ReplaceChunks(s, map) ==
    [i \in 1..Len(s) |-> IF s[i] \in DOMAIN map THEN map[s[i]] ELSE s[i]]

\* str.replace of the two adjacent chunks a, b by the chunk out
RECURSIVE ReplacePair(_, _, _, _)
ReplacePair(s, a, b, out) ==
    IF s = <<>> THEN <<>>
    ELSE IF Len(s) >= 2 /\ s[1] = a /\ s[2] = b
    THEN <<out>> \o ReplacePair(Drop(s, 2), a, b, out)
    ELSE <<Head(s)>> \o ReplacePair(Tail(s), a, b, out)

\* the three re.sub calls of migrate_frontend_files
FrontendReplace(content) ==
    ReplaceChunks(SubEnvOr(SubConstDecl(content)),
                  (ABU :> CFG) @@ (CONSTABU :> CONSTCFG))

\* the replacements dictionary of migrate_component_files, applied in its order
ComponentReplace(content) ==
    LET c1 == ReplacePair(content, DEVMODE, EQTRUE, "config.firebase.devMode")
        c2 == ReplaceChunks(c1,
                  (PUBENV :> "config.environment")
               @@ (FBPROJECT :> "config.firebase.projectId")
               @@ (FBKEY :> "config.firebase.apiKey")
               @@ (FBSENDER :> "config.firebase.messagingSenderId")
               @@ (FBAPP :> "config.firebase.appId"))
        c3 == ReplacePair(c2, NODEENV, EQDEV, "config.isDevelopment")
    IN ReplaceChunks(c3, (NODEENV :> "config.environment"))

\* the three str.replace calls of migrate_api_routes
ApiReplace(content) ==
    ReplaceChunks(content,
           (STORE :> "config.shopify.storeDomain")
        @@ (TOKEN :> "config.shopify.storefrontAccessToken")
        @@ (NODEENV :> "config.environment"))

----------------------------------------------------------------------------
(* migrate_config_batch.py : the three passes and main *)

\* the test that guards the migration in the loop of each function
Needs(kind, content) ==
    IF kind = "frontend" THEN HasApiUrlEnv(content)
    ELSE IF kind = "component" THEN HasProcessEnv(content)
    ELSE HasShopifyEnv(content)

\* the replacements each function applies after it inserted the import
Replace(kind, content) ==
    IF kind = "frontend" THEN FrontendReplace(content)
    ELSE IF kind = "component" THEN ComponentReplace(content)
    ELSE ApiReplace(content)

\* whether the loop body writes the file f: it exists, it is not migrated yet
\* and it holds what the function migrates
Writes(kind, f) ==
    /\ f \in present
    /\ ~HasConfigImport(mfs[f])
    /\ Needs(kind, mfs[f])

\* the for loop of one migrate function over its list: a path that does not
\* exist is skipped, an already migrated file is skipped, a file that needs the
\* migration gets the import and the replacements and is written
MigrateList(kind, files) ==
    LET written == SelectSeq(files, LAMBDA f : Writes(kind, f))
    IN /\ mfs' = [f \in DOMAIN mfs |->
                    IF f \in Range(written) THEN Replace(kind, InsertImport(mfs[f]))
                    ELSE mfs[f]]
       /\ mlog' = mlog \o [i \in 1..Len(written) |->
                              [path |-> written[i], before |-> mfs[written[i]]]]

InitMigrate ==
    /\ \E p \in ListedPaths :
          \E c \in SeqsUpTo(AlphabetOf(p), MaxLenMig) :
              /\ present = {p}
              /\ mfs = [f \in ListedPaths |-> IF f = p THEN c ELSE <<>>]
    /\ mfs0 = mfs
    /\ mfsRun = mfs
    /\ mpc = "frontend"
    /\ mrun = 1
    /\ mlog = <<>>
    /\ IdleFix
    /\ IdleDeploy

MigrateFrontendFiles ==
    /\ mpc = "frontend"
    /\ MigrateList("frontend", frontend_files)
    /\ mpc' = "component"
    /\ UNCHANGED <<present, mfs0, mfsRun, mrun, fixVars, deployVars>>

MigrateComponentFiles ==
    /\ mpc = "component"
    /\ MigrateList("component", component_files)
    /\ mpc' = "api"
    /\ UNCHANGED <<present, mfs0, mfsRun, mrun, fixVars, deployVars>>

MigrateApiRoutes ==
    /\ mpc = "api"
    /\ MigrateList("api", api_files)
    /\ mpc' = "done"
    /\ UNCHANGED <<present, mfs0, mfsRun, mrun, fixVars, deployVars>>

\* the script is run again on the files the previous run left
RunAgain ==
    /\ mpc = "done"
    /\ mrun < MaxRuns
    /\ mrun' = mrun + 1
    /\ mfsRun' = mfs
    /\ mpc' = "frontend"
    /\ UNCHANGED <<present, mfs, mfs0, mlog, fixVars, deployVars>>

NextMigrate ==
    MigrateFrontendFiles \/ MigrateComponentFiles \/ MigrateApiRoutes \/ RunAgain

SpecMigrate == InitMigrate /\ [][NextMigrate]_vars

----------------------------------------------------------------------------
(* Properties of fix_localhost_references.py *)

\* C1: after fix_file has run on a file, the content on disk has no occurrence
\* of http://localhost:3001, however the occurrence was quoted.
C1_NoLocalhostLeft ==
    \A p \in DOMAIN fs : rets[p] # "none" => ~HasLocalhost(fs[p])

\* suffix and path tests of C7, stated on the path alone
IsTsOrTsx(p) == p[Len(p)] \in {".ts", ".tsx"}

MentionsBuildDir(p) ==
    \E i \in 1..Len(p) : p[i] \in {"node_modules/", ".next/", ".next"}

C9_WritesIffChanged ==
    /\ \A p \in DOMAIN fs :
          LET changed == Rewrite(fs0[p]) # fs0[p]
          IN IF rets[p] = "none"
             THEN fs[p] = fs0[p] /\ p \notin Range(wrote) /\ p \notin Range(fixes_applied)
             ELSE /\ rets[p] = (IF changed THEN "True" ELSE "False")
                  /\ (p \in Range(wrote)) = changed
                  /\ (p \in Range(fixes_applied)) = changed
                  /\ fs[p] = (IF changed THEN Rewrite(fs0[p]) ELSE fs0[p])
    /\ fixes_applied = wrote
    /\ NoDup(fixes_applied)
    /\ stage = "done" => Range(fixes_applied) = {p \in DOMAIN fs : fs[p] # fs0[p]}

\* main has returned after fix_file wrote two files and left another unchanged
C9_Witness ==
    /\ stage = "done"
    /\ Len(fixes_applied) >= 2
    /\ \E p \in DOMAIN fs : rets[p] = "False"

\* C10: a second call of fix_file on the content the first call left returns
\* False and writes nothing: the substitutions give their own output back.
C10_SecondCallChangesNothing ==
    /\ ncalls >= 1 => Rewrite(fs[OnePath]) = fs[OnePath]
    /\ ncalls >= 2 => rets[OnePath] = "False" /\ Len(wrote) <= 1

----------------------------------------------------------------------------
(* Properties of fix_static_assets_deploy.py *)

Issued(c) == c \in Range(issued)

Count(c) == Cardinality({i \in 1..Len(issued) : issued[i] = c})

\* c was issued before d
Before(c, d) ==
    \E i, j \in 1..Len(issued) : i < j /\ issued[i] = c /\ issued[j] = d

Succeeded(c) == c \in DOMAIN rcs /\ rcs[c] = 0

\* C2: a non-zero exit of build, push or deploy, a raised HTTP check and a status
\* other than 200 all make main return False and the process exit with 1; main
\* returns True (exit 0) only after three successes and a 200.
C2_FailureAborts ==
    pc = "done" =>
        LET allGood == /\ Succeeded("build") /\ Succeeded("push")
                       /\ Succeeded("deploy") /\ http = "200"
        IN /\ retval = (IF allGood THEN "True" ELSE "False")
           /\ exitStatus = (IF allGood THEN "0" ELSE "1")

\* C3: push is issued only after build returned 0, deploy only after push
\* returned 0, the wait and the GET only after deploy returned 0, in that
\* order; a command that returned non-zero is the last call of the run.
C3_StepsInOrder ==
    /\ Issued("push") => Before("build", "push") /\ Succeeded("build")
    /\ Issued("deploy") => Before("push", "deploy") /\ Succeeded("push")
    /\ Issued("sleep") => Before("deploy", "sleep") /\ Succeeded("deploy")
    /\ Issued("get") => Before("sleep", "get") /\ Succeeded("deploy")
    /\ \A c \in DOMAIN rcs : rcs[c] # 0 => issued[Len(issued)] = c

\* the run ended at a failed push, after a successful build
C3_Witness ==
    /\ pc = "done"
    /\ Succeeded("build")
    /\ "push" \in DOMAIN rcs /\ rcs["push"] # 0

\* C4: each of build, push, deploy and the GET is issued at most once in a run;
\* when deploy succeeded the GET is issued exactly once, after the 30 s wait.
C4_NoRetry ==
    /\ \A c \in {"build", "push", "deploy", "get"} : Count(c) <= 1
    /\ Issued("get") => slept = 30 /\ Before("sleep", "get")
    /\ (pc \in {"exit", "done"} /\ Succeeded("deploy")) => Count("get") = 1

\* the run ended after a GET that was answered with an error status
C4_Witness ==
    /\ pc = "done"
    /\ Count("get") = 1
    /\ http = "500"

\* lines of the deploy output that hold both substrings, by position
MatchingLines == {i \in 1..Len(Split(stdout, NL)) : LineMatches(Split(stdout, NL)[i])}

FirstMatchingLine ==
    Split(stdout, NL)[CHOOSE i \in MatchingLines : \A j \in MatchingLines : i <= j]

\* C8 as stated: the GET targets the first matching line, stripped, and it
\* targets the default URL if and only if the output has no matching line.
C8_TargetsDefaultIffNoLine ==
    Issued("get") =>
        /\ MatchingLines # {} => target = Strip(FirstMatchingLine)
        /\ (target = DefaultUrl) <=> (MatchingLines = {})

\* C8 amended: the GET targets the first matching line, stripped, when there is
\* one and the default URL when there is none; the fallback to the default is
\* taken if and only if the output has no matching line.
C8_TargetIsFirstLineElseDefault ==
    Issued("get") =>
        /\ MatchingLines # {} => target = Strip(FirstMatchingLine)
        /\ MatchingLines = {} => target = DefaultUrl
        /\ usedDefault <=> (MatchingLines = {})

\* the GET went to a URL taken from a later line of the output, which the
\* strip shortened
C8_Witness ==
    /\ Issued("get")
    /\ ~usedDefault
    /\ 1 \notin MatchingLines
    /\ target # FirstMatchingLine

----------------------------------------------------------------------------
(* Properties of migrate_config_batch.py *)

\* sub occurs in s as a run of adjacent chunks
ContainsRun(s, sub) ==
    \E i \in 0..(Len(s) - Len(sub)) : SubSeq(s, i + 1, i + Len(sub)) = sub

\* "API_BASE_URL" in content
HasApiBaseUrl(content) == \E i \in 1..Len(content) : content[i] \in {ABU, CONSTABU}

\* C5: a listed frontend file that exists, reads process.env.NEXT_PUBLIC_API_URL
\* and has no config import is written with the import line in it and with no
\* process.env.NEXT_PUBLIC_API_URL and no API_BASE_URL left.
C5_FrontendFullyMigrated ==
    (mrun = 1 /\ mpc # "frontend") =>
        \A f \in Range(frontend_files) \cap present :
            (HasApiUrlEnv(mfs0[f]) /\ ~HasConfigImport(mfs0[f])) =>
                /\ ContainsRun(mfs[f], ImportLine)
                /\ ~HasApiUrlEnv(mfs[f])
                /\ ~HasApiBaseUrl(mfs[f])

\* C6: a listed file that has the config import is never written, a listed
\* path that does not exist is skipped, and the second run of main in a row
\* leaves every file as the first run left it.
C6_SkipsAndIdempotent ==
    /\ \A i \in 1..Len(mlog) : ~HasConfigImport(mlog[i].before)
    /\ \A i \in 1..Len(mlog) : mlog[i].path \in present
    /\ \A f \in ListedPaths \ present : mfs[f] = mfs0[f]
    /\ mrun >= 2 => mfs = mfsRun

====
